---- MODULE Spec2Model ----
(***************************************************************************)
(* Model of src/src/voronoiareas.py: the bounded Voronoi pipeline          *)
(* (create_bounded_ridges, get_crossing_point_rectangle,                   *)
(* get_boxed_polygons, compute_cells_bounded_by_polygon), the boundary     *)
(* graph (create_graph_from_polys) and the statistics computed in main.    *)
(*                                                                         *)
(* Coordinates are exact rationals <<num, den>> (den > 0, lowest terms).   *)
(* Seeds lie on an integer grid; the unit of length is a quarter of the    *)
(* side of the unit square used by main, so main's bbox [0,0,1,1] is the   *)
(* box <<0,0,4,4>> here.                                                   *)
(***************************************************************************)
EXTENDS Integers, Sequences, FiniteSets, TLC

(* ---------------------------- bounds ----------------------------------- *)
NumSeeds == 4        \* seeds per run
GridW == 3           \* seeds have x in 1..GridW
GridH == 3           \* seeds have y in 1..GridH
MaxMargin == 1       \* the box is <<1-m, 1-m, GridW+m, GridH+m>>, m in 0..MaxMargin
MaxRot == 1          \* point_region is the seed id rotated by 0..MaxRot, plus 1
FarCoord == 1000000  \* coordinates from here on are not computed with

(* ----------------------- numbers and points --------------------------- *)
\* A scalar is an exact rational <<num, den>> (den > 0, lowest terms).  A
\* point is <<X, Y, W>> (W > 0, gcd 1), standing for (X/W, Y/W).
Abs(a) == IF a < 0 THEN -a ELSE a
Sign(a) == IF a < 0 THEN -1 ELSE IF a > 0 THEN 1 ELSE 0

RECURSIVE GCD(_, _)
GCD(a, b) == IF b = 0 THEN a ELSE GCD(b, a % b)

Q(n, d) ==
    LET g == GCD(Abs(n), Abs(d))
        s == IF d < 0 THEN -1 ELSE 1
    IN  <<(s * n) \div g, (s * d) \div g>>

QI(i) == <<i, 1>>
QAdd(a, b) ==
    LET g == GCD(a[2], b[2])
    IN  Q(a[1] * (b[2] \div g) + b[1] * (a[2] \div g), (a[2] \div g) * b[2])
QSub(a, b) == QAdd(a, <<-b[1], b[2]>>)
QMul(a, b) ==
    LET g == GCD(Abs(a[1]), b[2])
        h == GCD(Abs(b[1]), a[2])
    IN  Q((a[1] \div g) * (b[1] \div h), (a[2] \div h) * (b[2] \div g))
QDiv(a, b) == QMul(a, IF b[1] < 0 THEN <<-b[2], -b[1]>> ELSE <<b[2], b[1]>>)
QLt(a, b) == a[1] * b[2] < b[1] * a[2]
QLe(a, b) == a[1] * b[2] <= b[1] * a[2]
QSign(a) == Sign(a[1])

Pt(x, y, w) ==
    LET g == GCD(GCD(Abs(x), Abs(y)), Abs(w))
        s == IF w < 0 THEN -1 ELSE 1
    IN  <<(s * x) \div g, (s * y) \div g, (s * w) \div g>>
PtI(p) == <<p[1], p[2], 1>>                      \* integer point
PtOfQ(x, y) == Pt(x[1] * y[2], y[1] * x[2], x[2] * y[2])
X(p) == Q(p[1], p[3])
Y(p) == Q(p[2], p[3])
Coord(p, i) == Q(p[i + 1], p[3])                 \* p[i], i = 0 or 1

PtLt(p, q) ==
    \/ p[1] * q[3] < q[1] * p[3]
    \/ (p[1] * q[3] = q[1] * p[3] /\ p[2] * q[3] < q[2] * p[3])

\* twice the signed area of the triangle o, a, b, times a.W * b.W * o.W^2
CrossNum(o, a, b) ==
      (a[1] * o[3] - o[1] * a[3]) * (b[2] * o[3] - o[2] * b[3])
    - (a[2] * o[3] - o[2] * a[3]) * (b[1] * o[3] - o[1] * b[3])
CrossSign(o, a, b) == Sign(CrossNum(o, a, b))

\* squared distance of p and u, times (p.W * u.W)^2
DistNum(p, u) ==
    LET dx == p[1] * u[3] - u[1] * p[3]
        dy == p[2] * u[3] - u[2] * p[3]
    IN  dx * dx + dy * dy
\* |p - u| <= |q - u|
NotFarther(p, q, u) == DistNum(p, u) * q[3] * q[3] <= DistNum(q, u) * p[3] * p[3]
\* the vector from u to p; |p - u| is its length
Displacement(p, u) == <<QSub(X(p), X(u)), QSub(Y(p), Y(u))>>

(* ------------------------ sequences and sets --------------------------- *)
Range(s) == {s[i] : i \in 1..Len(s)}

RECURSIVE SortPts(_)
SortPts(S) ==
    IF S = {} THEN <<>>
    ELSE LET m == CHOOSE p \in S : \A q \in S : q = p \/ PtLt(p, q)
         IN  <<m>> \o SortPts(S \ {m})

RECURSIVE SortInts(_)
SortInts(S) ==
    IF S = {} THEN <<>>
    ELSE LET m == CHOOSE p \in S : \A q \in S : p <= q
         IN  <<m>> \o SortInts(S \ {m})

RECURSIVE SumSeq(_)
SumSeq(s) == IF s = <<>> THEN QI(0) ELSE QAdd(s[1], SumSeq(Tail(s)))

(* ---------------- scipy.spatial.Voronoi (the external primitive) ------- *)
\* Ids are 0-based as in the program; the sentinel is -1.  Sequence s holds
\* the element with id k at position k+1.  Seeds are integer points <<x, y>>.
At(s, k) == s[k + 1]

Collinear(a, b, c) == CrossNum(PtI(a), PtI(b), PtI(c)) = 0

Circumcenter(a, b, c) ==
    LET a2 == a[1] * a[1] + a[2] * a[2]
        b2 == b[1] * b[1] + b[2] * b[2]
        c2 == c[1] * c[1] + c[2] * c[2]
        d  == 2 * (a[1] * (b[2] - c[2]) + b[1] * (c[2] - a[2]) + c[1] * (a[2] - b[2]))
    IN  Pt(a2 * (b[2] - c[2]) + b2 * (c[2] - a[2]) + c2 * (a[2] - b[2]),
           a2 * (c[1] - b[1]) + b2 * (a[1] - c[1]) + c2 * (b[1] - a[1]),
           d)

\* the seeds nearest to u (the generators of a Voronoi vertex at u)
Nearest(pts, u) ==
    {i \in 0..(Len(pts) - 1) :
        \A k \in 0..(Len(pts) - 1) : NotFarther(PtI(At(pts, i)), PtI(At(pts, k)), u)}

VoronoiVertexSet(pts) ==
    LET I == 0..(Len(pts) - 1)
        C == {Circumcenter(At(pts, t[1]), At(pts, t[2]), At(pts, t[3])) :
                t \in {t \in I \X I \X I :
                         /\ t[1] < t[2] /\ t[2] < t[3]
                         /\ ~Collinear(At(pts, t[1]), At(pts, t[2]), At(pts, t[3]))}}
    IN  {u \in C : Cardinality(Nearest(pts, u)) >= 3}

\* i and j generate a common edge at vertex u: both are nearest to u and
\* adjacent on the circle through the generators of u
AdjacentAt(pts, u, i, j) ==
    LET G == Nearest(pts, u)
    IN  /\ i \in G /\ j \in G /\ i # j
        /\ \A a \in G \ {i, j} : \A b \in G \ {i, j} :
              CrossSign(PtI(At(pts, i)), PtI(At(pts, j)), PtI(At(pts, a)))
            = CrossSign(PtI(At(pts, i)), PtI(At(pts, j)), PtI(At(pts, b)))

\* vertex ids of the ridge between seeds i and j
RidgeEnds(pts, verts, i, j) ==
    {k \in 0..(Len(verts) - 1) : AdjacentAt(pts, At(verts, k), i, j)}

\* Voronoi(points), with ridge_points pairs in increasing order and
\* region r+1 owned by seed r; regions[0] is empty.
Voronoi(pts) ==
    LET n == Len(pts)
        I == 0..(n - 1)
        verts == SortPts(VoronoiVertexSet(pts))
        gens == [k \in 1..Len(verts) |-> Nearest(pts, verts[k])]
        adj(k, i, j) == AdjacentAt(pts, verts[k], i, j)
        pairs == {pr \in I \X I : pr[1] < pr[2] /\ \E k \in 1..Len(verts) : adj(k, pr[1], pr[2])}
        po == SortPts({PtI(pr) : pr \in pairs})
        rp == [k \in 1..Len(po) |-> <<po[k][1], po[k][2]>>]
        rv == [k \in 1..Len(po) |->
                 LET e == SortInts(RidgeEnds(pts, verts, rp[k][1], rp[k][2]))
                 IN  IF Len(e) = 1 THEN <<-1, e[1]>> ELSE e]
        hull(i) == \E k \in 1..Len(po) : i \in Range(rp[k]) /\ -1 \in Range(rv[k])
        own(i) == SortInts({k \in 0..(Len(verts) - 1) : i \in gens[k + 1]})
    IN  [points |-> pts,
         vertices |-> verts,
         ridge_points |-> rp,
         ridge_vertices |-> rv,
         regions |-> [r \in 1..(n + 1) |->
                        IF r = 1 THEN <<>>
                        ELSE IF hull(r - 2) THEN <<-1>> \o own(r - 2) ELSE own(r - 2)],
         point_region |-> [k \in 1..n |-> k]]

\* The order inside a ridge_points pair and the numbering of the regions are
\* Qhull's choice: flip reverses every pair, rot gives seed i the region of
\* seed i + rot.
Renumbered(v, flip, rot) ==
    LET n == Len(v.points)
        pregion == [k \in 1..n |-> 1 + ((k - 1 + rot) % n)]
        seedOf(r) == CHOOSE i \in 0..(n - 1) : At(pregion, i) = r
    IN  [v EXCEPT
           !.ridge_points = [k \in 1..Len(v.ridge_points) |->
                               IF flip THEN <<v.ridge_points[k][2], v.ridge_points[k][1]>>
                               ELSE v.ridge_points[k]],
           !.regions = [r \in 1..(n + 1) |->
                          IF r = 1 THEN <<>> ELSE v.regions[seedOf(r - 1) + 2]],
           !.point_region = pregion]

(* ------------------------------ inputs --------------------------------- *)
Grid == (1..GridW) \X (1..GridH)
SeedSets ==
    {S \in SUBSET Grid :
        /\ Cardinality(S) = NumSeeds
        /\ \E a \in S : \E b \in S : \E c \in S : ~Collinear(a, b, c)}
IntPts(S) == [k \in 1..Cardinality(S) |-> <<SortPts({PtI(p) : p \in S})[k][1],
                                             SortPts({PtI(p) : p \in S})[k][2]>>]
Boxes == {<<1 - m, 1 - m, GridW + m, GridH + m>> : m \in 0..MaxMargin}

(* ------------------ get_crossing_point_rectangle ----------------------- *)
\* The unit normal alpha is kept as [dir, len2], standing for the vector
\* dir / sqrt(len2).  A distance d of the program is kept as d / sqrt(len2),
\* which leaves every comparison between two distances and the sign test
\* unchanged.  NumPy gives the components of an axis-parallel unit vector as
\* exactly 0 and +-1, so for those len2 = 1 and the distance is unscaled.
MindistInit == 999999999

LenCeil(len2) == CHOOSE r \in 1..(len2 + 1) : r * r >= len2 /\ (r - 1) * (r - 1) < len2

\* d < mindist while mindist still holds its initial value
BelowInit(d, alpha) == d[1] \div d[2] < MindistInit \div LenCeil(alpha.len2)

\* the distance computed for side j (0..3: xmin, ymin, xmax, ymax)
SideDist(v0, alpha, orient, box, j) ==
    LET i == j % 2
        d == QSub(QI(At(box, j)), Coord(v0, i))
    IN  IF At(alpha.dir, i) = 0 THEN QMul(d, QI(orient))
        ELSE QMul(QDiv(d, QI(At(alpha.dir, i))), QI(orient))

\* mindist after sides j..3, starting from m ("init" stands for 999999999)
RECURSIVE MinDist(_, _, _, _, _, _)
MinDist(v0, alpha, orient, box, j, m) ==
    IF j > 3 THEN m
    ELSE LET d == SideDist(v0, alpha, orient, box, j)
             m2 == IF QSign(d) < 0 THEN m
                   ELSE IF m = "init"
                        THEN (IF BelowInit(d, alpha) THEN d ELSE m)
                        ELSE (IF QLt(d, m) THEN d ELSE m)
         IN  MinDist(v0, alpha, orient, box, j + 1, m2)

\* p = v0 + orient * alpha * mindist.  When no side gave a distance the
\* program moves 999999999 along the ray: the point is kept to the integer
\* part (its coordinates are not rational in general).
get_crossing_point_rectangle(v0, alpha, orient, box) ==
    LET m == MinDist(v0, alpha, orient, box, 0, "init")
        far == MindistInit \div LenCeil(alpha.len2)
    IN  IF m = "init"
        THEN Pt((v0[1] \div v0[3]) + orient * alpha.dir[1] * far,
                (v0[2] \div v0[3]) + orient * alpha.dir[2] * far, 1)
        ELSE PtOfQ(QAdd(X(v0), QMul(QI(orient * alpha.dir[1]), m)),
                   QAdd(Y(v0), QMul(QI(orient * alpha.dir[2]), m)))

\* a point produced with mindist = 999999999
IsFar(p) == Abs(p[1]) >= FarCoord * p[3] \/ Abs(p[2]) >= FarCoord * p[3]

(* ----------------------- create_bounded_ridges ------------------------- *)
\* t = p1 - p0, t / norm(t), n = (-t.y, t.x)
Normal(p0, p1) ==
    LET tx == p1[1] - p0[1]
        ty == p1[2] - p0[2]
    IN  IF tx = 0 \/ ty = 0
        THEN [dir |-> <<-Sign(ty), Sign(tx)>>, len2 |-> 1]
        ELSE [dir |-> <<-ty, tx>>, len2 |-> tx * tx + ty * ty]

RECURSIVE SumInts(_)
SumInts(s) == IF s = <<>> THEN 0 ELSE s[1] + SumInts(Tail(s))

\* vor.points.mean(axis=0)
Mean(pts) ==
    Pt(SumInts([k \in 1..Len(pts) |-> pts[k][1]]),
       SumInts([k \in 1..Len(pts) |-> pts[k][2]]), Len(pts))

\* Orient with the midpoint taken from the origin, not from the center
OrientFromOrigin(v, j) ==
    LET p0 == At(v.points, At(v.ridge_points, j)[1])
        p1 == At(v.points, At(v.ridge_points, j)[2])
        n  == Normal(p0, p1)
    IN  Sign((p0[1] + p1[1]) * n.dir[1] + (p0[2] + p1[2]) * n.dir[2])

\* orient = sign(dot(midpoint - center, n))
Orient(v, j) ==
    LET p0 == At(v.points, At(v.ridge_points, j)[1])
        p1 == At(v.points, At(v.ridge_points, j)[2])
        n  == Normal(p0, p1)
        c  == Mean(v.points)
        mx == QSub(Q(p0[1] + p1[1], 2), X(c))
        my == QSub(Q(p0[2] + p1[2], 2), Y(c))
    IN  QSign(QAdd(QMul(mx, QI(n.dir[1])), QMul(my, QI(n.dir[2]))))

HasSentinel(simplex) == \E k \in 1..Len(simplex) : simplex[k] < 0
\* simplex[simplex >= 0][0]
FiniteEnd(simplex) == simplex[CHOOSE k \in 1..Len(simplex) :
                         simplex[k] >= 0 /\ \A l \in 1..(k - 1) : simplex[l] < 0]
\* np.where(simplex < 0)[0][0], as a position of the sequence
SentinelPos(simplex) == CHOOSE k \in 1..Len(simplex) :
                         simplex[k] < 0 /\ \A l \in 1..(k - 1) : simplex[l] >= 0

\* kk read from the vertex array of the tessellation
kk_stale(v, nv) == Len(v.vertices)

\* kk = newvorvertices.shape[0]
kk(v, nv) == Len(nv)

far_point_clipped(v, box, j) ==
    LET p0 == At(v.points, At(v.ridge_points, j)[1])
        p1 == At(v.points, At(v.ridge_points, j)[2])
    IN  get_crossing_point_rectangle(At(v.vertices, FiniteEnd(At(v.ridge_vertices, j))),
                                     Normal(p0, p1), Orient(v, j), box)

\* the loop over the ridges j, j+1, ...; nv, nr are newvorvertices, newridgevertices
RECURSIVE BoundRidges(_, _, _, _, _)
BoundRidges(v, box, j, nv, nr) ==
    IF j >= Len(v.ridge_vertices) THEN <<nv, nr>>
    ELSE LET simplex == At(v.ridge_vertices, j)
         IN  IF HasSentinel(simplex)
             THEN BoundRidges(v, box, j + 1,
                              Append(nv, far_point_clipped(v, box, j)),
                              [nr EXCEPT ![j + 1][SentinelPos(simplex)] = kk(v, nv)])
             ELSE BoundRidges(v, box, j + 1, nv, nr)

(* ------------------------- get_boxed_polygons -------------------------- *)
Remove1(s, x) ==      \* list.remove(x): drops the first occurrence
    LET k == CHOOSE k \in 1..Len(s) : s[k] = x /\ \A l \in 1..(k - 1) : s[l] # x
    IN  SubSeq(s, 1, k - 1) \o SubSeq(s, k + 1, Len(s))

\* np.where(vor.point_region == regidx)[0]
SeedsOfRegion(v, regidx) == {i \in 0..(Len(v.points) - 1) : At(v.point_region, i) = regidx}

\* myidx pointing at the finite end
myidx_finite(ridgevs) == IF ridgevs[1] = -1 THEN 2 ELSE 1

\* myidx = 0 if ridgevs[0] == -1 else 1, as a position of the sequence
myidx(ridgevs) == IF ridgevs[1] = -1 THEN 1 ELSE 2

\* the inner loop over the ridges ridgeid, ridgeid+1, ... for one region
RECURSIVE AppendRidgeEnds(_, _, _, _, _)
AppendRidgeEnds(v, nr, seedidx, ridgeid, reg) ==
    IF ridgeid >= Len(v.ridge_points) THEN reg
    ELSE LET ridgepts == At(v.ridge_points, ridgeid)
             ridgevs == At(v.ridge_vertices, ridgeid)
         IN  IF (Range(ridgepts) \cap seedidx = {}) \/ (-1 \notin Range(ridgevs))
             THEN AppendRidgeEnds(v, nr, seedidx, ridgeid + 1, reg)
             ELSE AppendRidgeEnds(v, nr, seedidx, ridgeid + 1,
                                  Append(reg, At(nr, ridgeid)[myidx(ridgevs)]))

\* lines 82-97 for one region
CloseRegion(v, nr, regidx) ==
    LET rr == At(v.regions, regidx)
    IN  IF -1 \notin Range(rr) THEN rr
        ELSE LET reg == AppendRidgeEnds(v, nr, SeedsOfRegion(v, regidx), 0, rr)
             IN  IF -1 \in Range(reg) THEN Remove1(reg, -1) ELSE reg

\* itertools.product((xmin, xmax), (ymin, ymax))
Corners(box) == <<<<box[1], box[2]>>, <<box[1], box[4]>>, <<box[3], box[2]>>, <<box[3], box[4]>>>>

\* the seeds tree.query(c) may return: the nearest ones
NearestSeeds(v, c) == Nearest(v.points, PtI(c))

\* the index of the seed taken as the index of its region
CornerRegionIsSeedIndex(v, idx) == idx

\* vor.point_region[idx]
CornerRegion(v, idx) == At(v.point_region, idx)

\* lines 103-107, idx[k] being the seed returned for the k-th corner
RECURSIVE AddCorners(_, _, _, _, _)
AddCorners(v, box, idx, k, acc) ==
    IF k > 4 THEN acc
    ELSE LET r == CornerRegion(v, idx[k])
         IN  AddCorners(v, box, idx, k + 1,
                 [verts |-> Append(acc.verts, PtI(Corners(box)[k])),
                  regs |-> [acc.regs EXCEPT ![r + 1] = Append(@, Len(acc.verts))]])

\* spatial.ConvexHull(points): Qhull fails on fewer than 3 points and on
\* collinear points
HullFails(P) == ~\E a \in P : \E b \in P : \E c \in P : CrossNum(a, b, c) # 0

\* the hull vertex that follows p counterclockwise
HullNext(P, p) ==
    CHOOSE q \in P \ {p} :
        \A r \in P : /\ CrossSign(p, q, r) >= 0
                      /\ (CrossNum(p, q, r) = 0 => NotFarther(r, q, p))

RECURSIVE HullFrom(_, _, _)
HullFrom(P, first, p) ==
    LET q == HullNext(P, p)
    IN  IF q = first THEN <<p>> ELSE <<p>> \o HullFrom(P, first, q)

\* points[hull.vertices]: the extreme points in counterclockwise order
ConvexHull(P) ==
    LET first == CHOOSE p \in P : \A q \in P : q = p \/ PtLt(p, q)
    IN  HullFrom(P, first, first)

RegionPoints(verts, reg) == {At(verts, reg[k]) : k \in 1..Len(reg)}

\* lines 109-116: one polygon per non-empty region
RECURSIVE ConvexPolys(_, _, _)
ConvexPolys(verts, regs, r) ==
    IF r > Len(regs) THEN <<>>
    ELSE IF Len(regs[r]) = 0 THEN ConvexPolys(verts, regs, r + 1)
    ELSE <<ConvexHull(RegionPoints(verts, regs[r]))>> \o ConvexPolys(verts, regs, r + 1)

(* ------------------ compute_cells_bounded_by_polygon ------------------- *)
\* mappoly is the rectangle whose bounds are the box (main builds both from
\* the same square).  poly.intersection(mappoly) of a convex ring with that
\* rectangle: the ring is cut by the four sides in turn.
NextIdx(ring, k) == IF k = Len(ring) THEN 1 ELSE k + 1

\* side j (0..3: xmin, ymin, xmax, ymax): is p on the rectangle's side of it,
\* strictly or not
Keeps(p, box, j) ==
    IF j < 2 THEN QLe(QI(At(box, j)), Coord(p, j % 2))
    ELSE QLe(Coord(p, j % 2), QI(At(box, j)))
KeepsStrictly(p, box, j) == Keeps(p, box, j) /\ Coord(p, j % 2) # QI(At(box, j))

\* the point of the segment a, b on the line of side j
CutPoint(a, b, box, j) ==
    LET i == j % 2
        o == 1 - i
        t == QDiv(QSub(QI(At(box, j)), Coord(a, i)), QSub(Coord(b, i), Coord(a, i)))
        v == QAdd(Coord(a, o), QMul(t, QSub(Coord(b, o), Coord(a, o))))
    IN  IF i = 0 THEN PtOfQ(QI(At(box, j)), v) ELSE PtOfQ(v, QI(At(box, j)))

\* the vertices of the part of the convex ring kept by side j
CutBySide(ring, box, j) ==
    {ring[k] : k \in {k \in 1..Len(ring) : Keeps(ring[k], box, j)}}
    \cup
    {CutPoint(ring[k], ring[NextIdx(ring, k)], box, j) :
        k \in {k \in 1..Len(ring) :
                 \/ KeepsStrictly(ring[k], box, j) /\ ~Keeps(ring[NextIdx(ring, k)], box, j)
                 \/ ~Keeps(ring[k], box, j) /\ KeepsStrictly(ring[NextIdx(ring, k)], box, j)}}

\* the ring of the intersection, <<>> when the intersection has no area
\* (an empty geometry, a point or a line)
RECURSIVE Intersection(_, _, _)
Intersection(ring, box, j) ==
    IF ring = <<>> \/ j > 3 THEN ring
    ELSE LET P == CutBySide(ring, box, j)
         IN  IF HullFails(P) THEN <<>>
             ELSE Intersection(ConvexHull(P), box, j + 1)

(* --------------------------- statistics -------------------------------- *)
\* x_a * y_b - x_b * y_a
Shoelace(a, b) == Q(a[1] * b[2] - b[1] * a[2], a[3] * b[3])

\* p.area of a ring
Area(ring) ==
    LET twice == SumSeq([k \in 1..Len(ring) |-> Shoelace(ring[k], ring[NextIdx(ring, k)])])
    IN  Q(Abs(twice[1]), 2 * twice[2])

\* p.centroid of a ring of positive area
Centroid(ring) ==
    LET sh(k) == Shoelace(ring[k], ring[NextIdx(ring, k)])
        a6 == QMul(QI(3), SumSeq([k \in 1..Len(ring) |-> sh(k)]))
        cx == SumSeq([k \in 1..Len(ring) |->
                 QMul(QAdd(X(ring[k]), X(ring[NextIdx(ring, k)])), sh(k))])
        cy == SumSeq([k \in 1..Len(ring) |->
                 QMul(QAdd(Y(ring[k]), Y(ring[NextIdx(ring, k)])), sh(k))])
    IN  PtOfQ(QDiv(cx, a6), QDiv(cy, a6))

(* --------------------- create_graph_from_polys ------------------------- *)
\* p.exterior.coords: the ring with its first coordinate repeated at the end
ExteriorCoords(ring) == Append(ring, ring[1])

RECURSIVE Flatten(_)
Flatten(ss) == IF ss = <<>> THEN <<>> ELSE ss[1] \o Flatten(Tail(ss))

\* coordsidx[x][y]: the id (0-based) of a coordinate in the array coords
CoordId(cs, c) == (CHOOSE i \in 1..Len(cs) : cs[i] = c) - 1

\* np.linalg.norm(p1 - p2), for the segments whose length is a whole number
Norm(p1, p2) ==
    LET dx == Abs(p1[1] - p2[1])
        dy == Abs(p1[2] - p2[2])
    IN  CHOOSE r \in 0..(dx + dy) : r * r = dx * dx + dy * dy

\* lines 244-254 for one polygon: the entries appended to edges and weights
RingEdges(cs, xy) ==
    [i \in 1..Len(xy) |->
        LET j == IF i = Len(xy) THEN 1 ELSE i + 1
        IN  [st |-> <<CoordId(cs, xy[i]), CoordId(cs, xy[j])>>,
             w |-> Norm(xy[i], xy[j])]]

AllEdges(cs, ps) == Flatten([k \in 1..Len(ps) |-> RingEdges(cs, ExteriorCoords(ps[k]))])

\* igraph stores an undirected edge as (larger id, smaller id); simplify()
\* drops the loops, keeps one edge of every pair of ids and rebuilds the edge
\* list in the order of (larger id, smaller id)
EdgeLt(e, f) == e[1] < f[1] \/ (e[1] = f[1] /\ e[2] < f[2])

RECURSIVE SortEdges(_)
SortEdges(S) ==
    IF S = {} THEN <<>>
    ELSE LET m == CHOOSE e \in S : \A f \in S : f = e \/ EdgeLt(e, f)
         IN  <<m>> \o SortEdges(S \ {m})

Simplify(es) ==
    SortEdges({IF es[k][1] > es[k][2] THEN es[k] ELSE <<es[k][2], es[k][1]>> :
                 k \in {k \in 1..Len(es) : es[k][1] # es[k][2]}})

\* g.es['weight'] = weights: edge k takes weights[k]; a list shorter than the
\* edge list is reused from its start
AssignWeights(es, ws) == [k \in 1..Len(es) |-> ws[1 + ((k - 1) % Len(ws))]]

\* the orders list(coords) may have: every arrangement of the set
RECURSIVE Arrangements(_)
Arrangements(S) ==
    IF S = {} THEN {<<>>}
    ELSE UNION {{<<c>> \o rest : rest \in Arrangements(S \ {c})} : c \in S}

(* ----------------- shortest paths and their average -------------------- *)
\* A distance is <<d>>, or <<>> for inf (no path).
Plus(a, b) == IF a = <<>> \/ b = <<>> THEN <<>> ELSE <<a[1] + b[1]>>
Shorter(a, b) ==
    IF a = <<>> THEN b ELSE IF b = <<>> THEN a ELSE IF a[1] <= b[1] THEN a ELSE b

\* the weight of the edge between nodes i and j, <<>> without an edge
Direct(es, ws, i, j) ==
    IF i = j THEN <<0>>
    ELSE LET K == {k \in 1..Len(es) : es[k] = <<i, j>> \/ es[k] = <<j, i>>}
         IN  IF K = {} THEN <<>> ELSE <<ws[CHOOSE k \in K : TRUE]>>

\* The matrix is kept row after row in one sequence: entry (i, j) of an
\* n x n matrix is m[i * n + j + 1].
Entry(n, m, i, j) == m[i * n + j + 1]

RECURSIVE DirectFrom(_, _, _, _)
DirectFrom(n, es, ws, c) ==
    IF c >= n * n THEN <<>>
    ELSE <<Direct(es, ws, c \div n, c % n)>> \o DirectFrom(n, es, ws, c + 1)

RECURSIVE RelaxFrom(_, _, _, _)
RelaxFrom(n, k, m, c) ==
    IF c >= n * n THEN <<>>
    ELSE <<Shorter(m[c + 1], Plus(Entry(n, m, c \div n, k), Entry(n, m, k, c % n)))>>
         \o RelaxFrom(n, k, m, c + 1)

RECURSIVE Relax(_, _, _)
Relax(n, k, m) == IF k >= n THEN m ELSE Relax(n, k + 1, RelaxFrom(n, k, m, 0))

\* g.shortest_paths(weights=g.es['weight'])
shortest_paths(n, es, ws) == Relax(n, 0, DirectFrom(n, es, ws, 0))

RECURSIVE SumDists(_)
SumDists(ds) == IF ds = <<>> THEN <<0>> ELSE Plus(ds[1], SumDists(Tail(ds)))

\* np.sum(shortestpaths) / (n * (n - 1)) in floating point: the sum of a
\* matrix with an inf entry is inf, x / 0 is nan for x = 0 and inf otherwise
AvgPathLength(n, sp) ==
    LET total == SumDists(sp)
    IN  IF n * (n - 1) = 0
        THEN [kind |-> IF total = <<0>> THEN "nan" ELSE "inf", value |-> QI(0)]
        ELSE IF total = <<>> THEN [kind |-> "inf", value |-> QI(0)]
        ELSE [kind |-> "number", value |-> Q(total[1], n * (n - 1))]

(* -------------------------- the pipeline ------------------------------- *)
VARIABLES vor, encbox, pc, newvorvertices, newridgevertices,
          newvorregions, boxedvertices, corneridx, cells,
          polys, areas, centroids, centroidsdists,
          coords, edges, weight, shortestpaths, avgpathlength

geometry == <<vor, encbox, newvorvertices, newridgevertices,
              newvorregions, boxedvertices, corneridx, cells>>
stats == <<areas, centroids, centroidsdists>>
graph == <<coords, edges, weight, shortestpaths, avgpathlength>>
vars == <<geometry, pc, polys, stats, graph>>

NoGraph ==
    /\ coords = <<>>
    /\ edges = <<>>
    /\ weight = <<>>
    /\ shortestpaths = <<>>
    /\ avgpathlength = [kind |-> "none", value |-> QI(0)]

Init ==
    /\ \E S \in SeedSets :
          LET v == Voronoi(IntPts(S))
          IN  \E flip \in BOOLEAN : \E rot \in 0..MaxRot : vor = Renumbered(v, flip, rot)
    /\ encbox \in Boxes
    /\ pc = "voronoi"
    /\ newvorvertices = <<>>
    /\ newridgevertices = <<>>
    /\ newvorregions = <<>>
    /\ boxedvertices = <<>>
    /\ corneridx = <<>>
    /\ cells = <<>>
    /\ polys = <<>>
    /\ areas = <<>>
    /\ centroids = <<>>
    /\ centroidsdists = <<>>
    /\ NoGraph

create_bounded_ridges ==
    /\ pc = "voronoi"
    /\ LET r == BoundRidges(vor, encbox, 0, vor.vertices, vor.ridge_vertices)
       IN  /\ newvorvertices' = r[1]
           /\ newridgevertices' = r[2]
    /\ pc' = "bounded"
    /\ UNCHANGED <<vor, encbox, newvorregions, boxedvertices, corneridx, cells,
                   polys, stats, graph>>

\* idx[k] is the seed tree.query returns for the k-th corner.  Qhull builds
\* the hulls also when a vertex lies 999999999 away; the coordinates of such
\* a hull are beyond the numbers of the model and the run is followed no
\* further (pc = "far").
get_boxed_polygons ==
    /\ pc = "bounded"
    /\ LET closed == [r \in 1..Len(vor.regions) |->
                         CloseRegion(vor, newridgevertices, r - 1)]
       IN  \E i1 \in NearestSeeds(vor, Corners(encbox)[1]) :
           \E i2 \in NearestSeeds(vor, Corners(encbox)[2]) :
           \E i3 \in NearestSeeds(vor, Corners(encbox)[3]) :
           \E i4 \in NearestSeeds(vor, Corners(encbox)[4]) :
              LET idx == <<i1, i2, i3, i4>>
                  acc == AddCorners(vor, encbox, idx, 1,
                                    [verts |-> newvorvertices, regs |-> closed])
                  far == \E k \in 1..Len(acc.verts) : IsFar(acc.verts[k])
                  fails == \E r \in 1..Len(acc.regs) :
                              /\ Len(acc.regs[r]) # 0
                              /\ HullFails(RegionPoints(acc.verts, acc.regs[r]))
              IN  /\ newvorregions' = acc.regs
                  /\ boxedvertices' = acc.verts
                  /\ corneridx' = idx
                  /\ cells' = IF far \/ fails THEN <<>>
                              ELSE ConvexPolys(acc.verts, acc.regs, 1)
                  /\ pc' = IF far THEN "far" ELSE IF fails THEN "QhullError" ELSE "boxed"
    /\ UNCHANGED <<vor, encbox, newvorvertices, newridgevertices,
                   polys, stats, graph>>

compute_cells_bounded_by_polygon ==
    /\ pc = "boxed"
    /\ polys' = [k \in 1..Len(cells) |-> Intersection(cells[k], encbox, 0)]
    /\ pc' = "clipped"
    /\ UNCHANGED <<geometry, stats, graph>>

\* main, lines 340-343, reached after the graph of lines 333-337, which these
\* lines do not read.  A piece without area has no exterior ring and no
\* centroid coordinates: the run stops with an exception.  A distance (the
\* square root of a rational) is kept as the displacement it is the length of.
statistics ==
    /\ pc = "clipped"
    /\ IF \E k \in 1..Len(polys) : polys[k] = <<>>
       THEN /\ pc' = "Exception"
            /\ UNCHANGED stats
       ELSE LET c == [k \in 1..Len(polys) |-> Centroid(polys[k])]
            IN  /\ pc' = "done"
                /\ areas' = [k \in 1..Len(polys) |-> Area(polys[k])]
                /\ centroids' = c
                /\ centroidsdists' =
                      [k \in 1..Len(polys) |-> Displacement(c[k], PtI(vor.points[k]))]
    /\ UNCHANGED <<geometry, polys, graph>>

Next ==
    \/ create_bounded_ridges
    \/ get_boxed_polygons
    \/ compute_cells_bounded_by_polygon
    \/ statistics

Spec == Init /\ [][Next]_vars

(* ------------------- the graph of a list of polygons -------------------- *)
\* The polygons handed to create_graph_from_polys: one or two right triangles
\* with legs 3 and 4 (all sides of whole length), lower-left or upper-right
\* half of the rectangle at offset x0, with disjoint interiors.
RingOffsets == {0, 3, 4}
Lower(x0) == <<<<x0, 0, 1>>, <<x0 + 3, 0, 1>>, <<x0, 4, 1>>>>
Upper(x0) == <<<<x0 + 3, 0, 1>>, <<x0 + 3, 4, 1>>, <<x0, 4, 1>>>>
Rings == [half : {"lower", "upper"}, x0 : RingOffsets]
RingOf(r) == IF r.half = "lower" THEN Lower(r.x0) ELSE Upper(r.x0)
Apart(r, q) == (r.x0 = q.x0 /\ r.half # q.half) \/ Abs(r.x0 - q.x0) >= 3
PolyLists ==
    {<<RingOf(r)>> : r \in Rings}
    \cup {<<RingOf(rq[1]), RingOf(rq[2])>> : rq \in {rq \in Rings \X Rings : Apart(rq[1], rq[2])}}

InitGraph ==
    /\ polys \in PolyLists
    /\ pc = "clipped"
    /\ vor = [points |-> <<>>, vertices |-> <<>>, ridge_points |-> <<>>,
              ridge_vertices |-> <<>>, regions |-> <<>>, point_region |-> <<>>]
    /\ encbox = <<0, 0, 0, 0>>
    /\ newvorvertices = <<>>
    /\ newridgevertices = <<>>
    /\ newvorregions = <<>>
    /\ boxedvertices = <<>>
    /\ corneridx = <<>>
    /\ cells = <<>>
    /\ areas = <<>>
    /\ centroids = <<>>
    /\ centroidsdists = <<>>
    /\ NoGraph

\* lines 224-270; cs is the order in which list(coords) enumerates the set
create_graph_from_polys ==
    /\ pc = "clipped"
    /\ \E cs \in Arrangements(UNION {Range(polys[k]) : k \in 1..Len(polys)}) :
          LET all == AllEdges(cs, polys)
              es == Simplify([k \in 1..Len(all) |-> all[k].st])
          IN  /\ coords' = cs
              /\ edges' = es
              /\ weight' = AssignWeights(es, [k \in 1..Len(all) |-> all[k].w])
    /\ pc' = "graph"
    /\ UNCHANGED <<geometry, polys, stats, shortestpaths, avgpathlength>>

\* main, lines 334-336
average_path_length ==
    /\ pc = "graph"
    /\ LET n == Len(coords)
           sp == shortest_paths(n, edges, weight)
       IN  /\ shortestpaths' = sp
           /\ avgpathlength' = AvgPathLength(n, sp)
    /\ pc' = "averaged"
    /\ UNCHANGED <<geometry, polys, stats, coords, edges, weight>>

NextGraph == create_graph_from_polys \/ average_path_length

SpecGraph == InitGraph /\ [][NextGraph]_vars

(* ======================= properties ==================================== *)
InBox(p, box) ==
    /\ QLe(QI(box[1]), X(p)) /\ QLe(X(p), QI(box[3]))
    /\ QLe(QI(box[2]), Y(p)) /\ QLe(Y(p), QI(box[4]))
OnSideLine(p, box) == \E j \in 0..3 : Coord(p, j % 2) = QI(At(box, j))
BoxArea(box) == QI((box[3] - box[1]) * (box[4] - box[2]))

Clipped == pc \notin {"voronoi"}                  \* create_bounded_ridges has run
Closed == pc \notin {"voronoi", "bounded"}        \* get_boxed_polygons has run
UnboundedRidges ==
    {j \in 0..(Len(vor.ridge_vertices) - 1) : HasSentinel(At(vor.ridge_vertices, j))}
\* the finite end of ridge j and the vertex that replaced its sentinel
FiniteVertex(j) == At(vor.vertices, FiniteEnd(At(vor.ridge_vertices, j)))
ReplacementId(j) == At(newridgevertices, j)[SentinelPos(At(vor.ridge_vertices, j))]
Replacement(j) == At(newvorvertices, ReplacementId(j))

\* C1: the vertex that replaces the sentinel of a ridge lies inside the
\* clipping rectangle, boundary included.
C1_ReplacementInsideBox ==
    Clipped => \A j \in UnboundedRidges : InBox(Replacement(j), encbox)

\* C2: the cells returned by get_boxed_polygons tile the clipping rectangle:
\* the cells are returned, none reaches beyond the rectangle and their areas
\* add up to the area of the rectangle.
C2_CellsTileBox ==
    Closed =>
        /\ pc \notin {"QhullError", "far"}
        /\ \A k \in 1..Len(cells) : \A p \in Range(cells[k]) : InBox(p, encbox)
        /\ SumSeq([k \in 1..Len(cells) |-> Area(cells[k])]) = BoxArea(encbox)

\* the cell built from region r: the empty regions give no cell
CellIndex(r) == Cardinality({q \in 0..r : At(newvorregions, q) # <<>>})
SquareAround(s) ==
    {<<s[1] - 1, s[2] - 1, 1>>, <<s[1] + 1, s[2] - 1, 1>>,
     <<s[1] + 1, s[2] + 1, 1>>, <<s[1] - 1, s[2] + 1, 1>>}
\* the scenario of C3 in quarters of the unit: seeds (1,1), (3,1), (1,3),
\* (3,3), box [0,0,4,4]
Scenario ==
    /\ Range(vor.points) = {<<1, 1>>, <<3, 1>>, <<1, 3>>, <<3, 3>>}
    /\ encbox = <<0, 0, 4, 4>>

\* C3: in the scenario the pipeline gives 4 cells, the cell of every seed is
\* the square of side 2 (0.5 of the unit) around it with area 4 (0.25), the
\* intersection with the domain leaves every cell as it is, and the areas
\* add up to 16 (1.0).
C3_FourSquares ==
    Scenario =>
        /\ pc \notin {"QhullError", "far", "Exception"}
        /\ pc \in {"boxed", "clipped", "done"} =>
              /\ Len(cells) = 4
              /\ \A i \in 0..3 :
                    LET c == cells[CellIndex(At(vor.point_region, i))]
                    IN  /\ Range(c) = SquareAround(At(vor.points, i))
                        /\ Len(c) = 4
                        /\ Area(c) = QI(4)
        /\ pc \in {"clipped", "done"} => polys = cells
        /\ pc = "done" =>
              /\ areas = <<QI(4), QI(4), QI(4), QI(4)>>
              /\ SumSeq(areas) = QI(16)

C3_Witness == Scenario /\ pc = "done"

\* C4: after get_boxed_polygons every non-empty region lists no sentinel, no
\* vertex id twice and only ids of the extended vertex sequence, and every
\* cell has pairwise distinct vertices.
C4_RegionsClosed ==
    Closed =>
        /\ \A r \in 1..Len(newvorregions) :
              LET reg == newvorregions[r]
              IN  /\ -1 \notin Range(reg)
                  /\ Cardinality(Range(reg)) = Len(reg)
                  /\ \A k \in 1..Len(reg) : reg[k] \in 0..(Len(boxedvertices) - 1)
        /\ \A k \in 1..Len(cells) : Cardinality(Range(cells[k])) = Len(cells[k])

C4_Witness ==
    /\ pc = "boxed"
    /\ \E r \in 1..Len(vor.regions) :
          -1 \in Range(vor.regions[r]) /\ Len(newvorregions[r]) > Len(vor.regions[r])

\* the id of the vertex appended for the k-th corner
CornerId(k) == Len(newvorvertices) + k - 1
RegionsWith(id) == {r \in 0..(Len(newvorregions) - 1) : id \in Range(At(newvorregions, r))}

\* C5: every corner of the rectangle is one new vertex, listed once, in
\* exactly one region: the region point_region gives to a seed nearest to
\* the corner.
C5_CornerInNearestRegion ==
    Closed =>
        /\ Len(boxedvertices) = Len(newvorvertices) + 4
        /\ \A k \in 1..4 :
              /\ At(boxedvertices, CornerId(k)) = PtI(Corners(encbox)[k])
              /\ \E i \in Nearest(vor.points, PtI(Corners(encbox)[k])) :
                    RegionsWith(CornerId(k)) = {At(vor.point_region, i)}
              /\ \A r \in RegionsWith(CornerId(k)) :
                    Cardinality({n \in 1..Len(At(newvorregions, r)) :
                                    At(newvorregions, r)[n] = CornerId(k)}) = 1

\* a corner went to a region whose index is not the index of the seed, and
\* not to the region with the index of the seed
C5_Witness ==
    /\ pc = "boxed"
    /\ \E k \in 1..4 :
          /\ At(vor.point_region, corneridx[k]) # corneridx[k] + 1
          /\ CornerId(k) \in Range(At(newvorregions, At(vor.point_region, corneridx[k])))
          /\ CornerId(k) \notin Range(At(newvorregions, corneridx[k]))

\* the square of the length of a displacement
Length2(d) == QAdd(QMul(d[1], d[1]), QMul(d[2], d[2]))

\* C8: the distance reported for seed i is the distance between seed i and
\* the centroid of the cell built from the region of seed i.
C8_DisplacementOfOwnCell ==
    pc = "done" =>
        \A i \in 0..(Len(vor.points) - 1) :
            Length2(At(centroidsdists, i))
              = Length2(Displacement(Centroid(polys[CellIndex(At(vor.point_region, i))]),
                                     PtI(At(vor.points, i))))

\* the crossing distances C9 lists for side j: none along an axis on which
\* the normal has no component, unless V is beyond that side, then 0
ClaimedDists(v0, alpha, orient, box, j) ==
    LET i == j % 2
        d == SideDist(v0, alpha, orient, box, j)
    IN  IF At(alpha.dir, i) = 0
        THEN (IF ~Keeps(v0, box, j) THEN {QI(0)} ELSE {})
        ELSE (IF QSign(d) >= 0 THEN {d} ELSE {})
ClaimedPoint(v0, alpha, orient, box) ==
    LET D == UNION {ClaimedDists(v0, alpha, orient, box, j) : j \in 0..3}
        a == CHOOSE d \in D : \A e \in D : QLe(d, e)
    IN  PtOfQ(QAdd(X(v0), QMul(QI(orient * alpha.dir[1]), a)),
              QAdd(Y(v0), QMul(QI(orient * alpha.dir[2]), a)))
RidgeNormal(j) ==
    Normal(At(vor.points, At(vor.ridge_points, j)[1]),
           At(vor.points, At(vor.ridge_points, j)[2]))

\* C9: for a finite end V inside the rectangle the replacement vertex is V
\* moved along the ray by the smallest crossing distance of C9, and it lies
\* on the line of one of the four sides.
C9_ReplacementOnSideLine ==
    Clipped =>
        \A j \in UnboundedRidges :
            InBox(FiniteVertex(j), encbox) =>
                /\ Replacement(j)
                     = ClaimedPoint(FiniteVertex(j), RidgeNormal(j), Orient(vor, j), encbox)
                /\ OnSideLine(Replacement(j), encbox)

\* C10: create_bounded_ridges only appends: the finite ridges and the old
\* vertices stay, every sentinel slot (and no other slot) now holds the id of
\* a vertex appended for that ridge, these ids are distinct and not below the
\* old vertex count, and the vertex count grew by the number of such ridges.
C10_AppendOnly ==
    Clipped =>
        /\ Len(newridgevertices) = Len(vor.ridge_vertices)
        /\ \A j \in 0..(Len(vor.ridge_vertices) - 1) :
              j \notin UnboundedRidges => At(newridgevertices, j) = At(vor.ridge_vertices, j)
        /\ \A k \in 0..(Len(vor.vertices) - 1) : At(newvorvertices, k) = At(vor.vertices, k)
        /\ \A j \in UnboundedRidges :
              /\ ReplacementId(j) \in Len(vor.vertices)..(Len(newvorvertices) - 1)
              /\ \A n \in 1..2 :
                    n # SentinelPos(At(vor.ridge_vertices, j))
                        => At(newridgevertices, j)[n] = At(vor.ridge_vertices, j)[n]
              /\ \A l \in UnboundedRidges : ReplacementId(l) = ReplacementId(j) => l = j
        /\ Len(newvorvertices) = Len(vor.vertices) + Cardinality(UnboundedRidges)

\* a tessellation with finite and unbounded ridges has been clipped
C10_Witness ==
    /\ pc = "bounded"
    /\ Cardinality(UnboundedRidges) >= 3
    /\ \E j \in 0..(Len(vor.ridge_vertices) - 1) : j \notin UnboundedRidges

(* ------------------------------ graph ---------------------------------- *)
AllCoords == UNION {Range(polys[k]) : k \in 1..Len(polys)}
Built == pc \in {"graph", "averaged"}
\* the segments of the rings, as sets of two coordinates
RingSegments ==
    UNION {{{polys[k][i], polys[k][NextIdx(polys[k], i)]} : i \in 1..Len(polys[k])} :
             k \in 1..Len(polys)}

\* C6: one node per distinct boundary coordinate, every edge joins two
\* consecutive coordinates of a ring, no edge is a loop, and the weight of
\* every edge is the distance between the coordinates of its two ends.
C6_GraphOfRings ==
    Built =>
        /\ Range(coords) = AllCoords /\ Len(coords) = Cardinality(AllCoords)
        /\ \A k \in 1..Len(edges) :
              /\ edges[k][1] # edges[k][2]
              /\ {At(coords, edges[k][1]), At(coords, edges[k][2])} \in RingSegments
              /\ weight[k] = Norm(At(coords, edges[k][1]), At(coords, edges[k][2]))

Disconnected == \E k \in 1..Len(shortestpaths) : shortestpaths[k] = <<>>
FiniteSum == SumDists(SelectSeq(shortestpaths, LAMBDA d : d # <<>>))

\* C7: the average is the sum of the finite distances over n*(n-1); with
\* fewer than 2 nodes or a disconnected graph it is reported as undefined,
\* no unreachable pair entering a numeric result.
C7_AverageOrUndefined ==
    pc = "averaged" =>
        IF Len(coords) < 2 \/ Disconnected
        THEN avgpathlength.kind = "undefined"
        ELSE avgpathlength = [kind |-> "number",
                              value |-> Q(FiniteSum[1], Len(coords) * (Len(coords) - 1))]
====
